---- MODULE Spec2Model ----
(***************************************************************************)
(* Didstopia/mjpeg-server: the UDP frame assembler (udpserver.UDPServer),  *)
(* the capture/pacing loop (capture) and the shutdown sequence of main.    *)
(*                                                                         *)
(* Three goroutines share state without any lock:                          *)
(*   - the ingestion task  UDPServer.Start  (writes frameBuffer, lastFrame)*)
(*   - the pacing task     capture          (reads lastFrame via GetFrame) *)
(*   - main                                 (closes the stream, cancels,   *)
(*                                           waits on the wait group)      *)
(* Every read or write of a shared field is one step; steps that touch     *)
(* only goroutine-private data are merged into the step that follows.      *)
(* Memory is taken to be sequentially consistent at that granularity.      *)
(* An unrecovered panic in any goroutine, and main returning, end the      *)
(* process and with it every goroutine.                                    *)
(*                                                                         *)
(* Specifications:                                                         *)
(*   Spec            the three goroutines                                  *)
(*   LiveSpec        Spec under a fair scheduler                           *)
(*   SpecTorn        ingestion against the pacing task while the server    *)
(*                   serves, recording the last two recognised frames      *)
(*   SpecReassembly  one frame, cut into chunks, delivered to a fresh      *)
(*                   assembler and read back                               *)
(*   SpecAngle       the pacing task against an assembler that receives    *)
(*                   nothing: one placeholder after the other              *)
(*   SpecPlaceholder ingestion against the pacing task from the launch of  *)
(*                   both, following the angle and the dimensions of the   *)
(*                   placeholder                                           *)
(*   SpecRecovery    SpecReassembly after the leading fragment of the      *)
(*                   frame before was lost: stray fragments, then F        *)
(*   SpecAccumulation the ingestion task alone, fed marker fragments       *)
(*   SpecPacing      the pacing loop against a millisecond clock           *)
(*   SpecConfig      main resolving the frame rate (flag, environment)     *)
(*                   and computing the push interval                       *)
(* Only SpecAngle and SpecPlaceholder follow the picture of the            *)
(* placeholder (elsewhere its angle and dimensions stay as they start);    *)
(* only SpecPacing follows the clock and only SpecConfig the resolution    *)
(* of the frame rate (elsewhere the rate is the default, 25).              *)
(***************************************************************************)
EXTENDS Integers, Sequences, FiniteSets, TLC

\* ------------------------------------------------------------------ bounds
\* Longest datagram payload the environment sends.
MaxFragLen == 2
\* Longest accumulation in frameBuffer (a datagram that would exceed it is
\* not sent).
MaxBufLen == 4
\* Longest frame F of the reassembly scenario.
MaxFrameLen == 6
\* Placeholders generated under SpecPlaceholder.
MaxGenerations == 3
\* Fragments of a lost frame that arrive before the next frame (SpecRecovery).
MaxStrays == 1
\* Longest accumulation under SpecAccumulation.
MaxAccLen == 6
\* Longest value of MJPEG_SERVER_FRAMERATE, in characters.
MaxEnvLen == 2
\* Where the millisecond counters of the pacing loop saturate.
MaxElapsed == 6

\* --------------------------------------------------------------- constants
defaultFrameWidth == 640
defaultFrameHeight == 480
\* angleOffsetIncrement = 0.5, in tenths of a degree.
angleOffsetIncrement == 5
\* The 360 of lastAngleOffset+angleOffsetIncrement < 360, in tenths of a
\* degree.
FullRevolution == 3600
defaultFrameRate == 25

\* ------------------------------------------------------------------ bytes
\* 0xFF, 0xD8, 0xD9 are the marker bytes the code compares against; 0x00
\* stands for every other byte and is what make([]byte, n) fills with.
Bytes == {0, 216, 217, 255}

Fragments == UNION {[1..n -> Bytes] : n \in 0..MaxFragLen}

\* make([]byte, n): n zero bytes.
MakeBytes(n) == [i \in 1..n |-> 0]

\* ------------------------------------------------------------------ state
VARIABLES
    frameBuffer,   \* s.frameBuffer: the frame being accumulated
    lastFrame,     \* contents of the array s.lastFrame refers to (nil = <<>>)
    copied,        \* bytes copy(s.lastFrame, s.frameBuffer) has moved so far
    ingestPc,      \* position of UDPServer.Start's loop
    crashed,       \* the process died (a runtime panic, or log.Fatal)
    capPc,         \* position of capture
    retKind,       \* what GetFrame returned: "none", "placeholder", "frame"
    retVal,        \* the bytes GetFrame returned, as they were at the return
    streamClosed,  \* mjpeg.Stream was closed (Update returns an error)
    cancelled,     \* main called cancel()
    stopCalled,    \* capture's deferred udpServer.Stop() ran
    wg,            \* sync.WaitGroup counter
    wgDoneCalls,   \* how often wg.Done() was called
    mainPc,        \* position of main
    \* history, not program state
    stalled,       \* a read timeout reset the assembler and no frame has
                   \* been recognised since
    staleFrame,    \* the frame that reset wiped (<<>> when it wiped none)
    callStalled,   \* stalled, as it was when the running GetFrame call began
    newestFrame,   \* the frame recognised last (recorded under SpecTorn)
    prevFrame,     \* the frame recognised before newestFrame
    accepted,      \* fragments stored since the last recognition or reset
    pushErr,       \* a push (stream.Update) returned an error
    chunks,        \* reassembly scenario: the chunks of F not yet delivered
    F,             \* reassembly scenario: the frame being delivered
    \* the placeholder (package-level variables of udpserver), followed under
    \* SpecAngle and SpecPlaceholder
    lastAngleOffset,   \* rotation angle of the next placeholder, in tenths of
                       \* a degree (every value the float64 takes is a
                       \* multiple of 0.5 below 2^52, so the sums are exact)
    lastFrameWidth,    \* width the next placeholder is drawn at
    lastFrameHeight,   \* height the next placeholder is drawn at
    usedAngle,         \* angleOffset: the angle the last placeholder was drawn
                       \* with (-1 before the first one)
    placeholderSize,   \* img.Bounds() of the last placeholder
    sinceZero,         \* history: placeholders generated since the angle was
                       \* last 0
    \* the frame rate (main), followed under SpecConfig
    flagFps,           \* *frameRate after flag.Parse()
    envFps,            \* MJPEG_SERVER_FRAMERATE, a string (<<>> when unset)
    frameRate,         \* *frameRate after the environment override
    streamInterval,    \* streamInterval, in milliseconds
    \* the clock of the pacing loop (capture), followed under SpecPacing; time
    \* in whole milliseconds, counters saturating at MaxElapsed
    sinceTop,          \* time.Now() - lastFrame
    slept,             \* how long the running time.Sleep has lasted
    sincePush,         \* history: time since the last push (-1 before it)
    lastGap            \* history: time between the last two pushes (-1
                       \* before the second)

vars == <<frameBuffer, lastFrame, copied, ingestPc, crashed, capPc, retKind,
          retVal, streamClosed, cancelled, stopCalled, wg, wgDoneCalls,
          mainPc, stalled, staleFrame, callStalled, newestFrame, prevFrame,
          accepted, pushErr, chunks, F, lastAngleOffset, lastFrameWidth,
          lastFrameHeight, usedAngle, placeholderSize, sinceZero, flagFps,
          envFps, frameRate, streamInterval, sinceTop, slept, sincePush,
          lastGap>>

asmVars == <<frameBuffer, lastFrame, copied, ingestPc, crashed>>
asmHist == <<stalled, staleFrame, accepted>>
frameHist == <<newestFrame, prevFrame>>
capVars == <<capPc, retKind, retVal, stopCalled, wg, wgDoneCalls, callStalled,
             pushErr>>
mainVars == <<mainPc, streamClosed, cancelled>>
scenVars == <<chunks, F>>
plVars == <<lastAngleOffset, lastFrameWidth, lastFrameHeight, usedAngle,
            placeholderSize, sinceZero>>
cfgVars == <<flagFps, envFps, frameRate, streamInterval>>
paceVars == <<sinceTop, slept, sincePush, lastGap>>
rateVars == <<cfgVars, paceVars>>

\* The process is alive: no panic, and main has not returned.
Running == ~crashed /\ mainPc # "done"

\* ------------------------------------------------------------ UDPServer.Start
\* Mutant: only the first byte is compared.
hasJpegHeaderFirstByte(buf) == buf[1] = 255

hasJpegHeader(buf) == buf[1] = 255 /\ buf[2] = 216

hasJpegFooter(buf) == buf[Len(buf) - 1] = 255 /\ buf[Len(buf)] = 217

isCompleteFrame(buf) == hasJpegHeader(buf) /\ hasJpegFooter(buf)

\* newFameBuffer[1] (when byte 0 is 0xFF) or newFameBuffer[len-2] is out of
\* range when the accumulation holds a single byte: the runtime panics.
IndexPanics(buf) == Len(buf) < 2

\* Mutant: a fragment that begins with the start marker restarts the
\* accumulation.
newFameBufferRestarting(frag) ==
    IF Len(frag) >= 2 /\ frag[1] = 255 /\ frag[2] = 216
       THEN frag
       ELSE frameBuffer \o frag

\* append(s.frameBuffer, buffer[:n]...)
newFameBuffer(frag) == frameBuffer \o frag

\* s.ctx is context.Background(): its Done() channel is nil and is never
\* ready, and Stop() only calls s.ctx.Done(), which cancels nothing.
ServerCtxDone == FALSE

\* Start, up to its loop: the package-level dimensions are set to the
\* defaults and the socket is opened; when net.ListenPacket fails, log.Fatal
\* ends the process.
IngestStart ==
    /\ Running
    /\ ingestPc = "start"
    /\ lastFrameWidth' = defaultFrameWidth
    /\ lastFrameHeight' = defaultFrameHeight
    /\ \E listenOk \in BOOLEAN :
          IF listenOk
             THEN ingestPc' = "select" /\ crashed' = crashed
             ELSE ingestPc' = ingestPc /\ crashed' = TRUE
    /\ UNCHANGED <<frameBuffer, lastFrame, copied>>
    /\ UNCHANGED <<lastAngleOffset, usedAngle, placeholderSize, sinceZero>>
    /\ UNCHANGED <<asmHist, frameHist, capVars, mainVars, scenVars, rateVars>>

\* select { case <-s.ctx.Done(): return; default: ... } and SetReadDeadline.
IngestSelect ==
    /\ Running
    /\ ingestPc = "select"
    /\ ingestPc' = IF ServerCtxDone THEN "returned" ELSE "read"
    /\ UNCHANGED <<frameBuffer, lastFrame, copied, crashed>>
    /\ UNCHANGED <<asmHist, frameHist, capVars, mainVars, scenVars, plVars, rateVars>>

\* Mutant: && in place of ||.
ResetOnOpErrorBoth == frameBuffer # <<>> /\ lastFrame # <<>>

\* case *net.OpError: matches every *net.OpError, the read timeout included.
\* if len(s.frameBuffer) > 0 || len(s.lastFrame) > 0 { reset both }
ResetOnOpError == frameBuffer # <<>> \/ lastFrame # <<>>

\* conn.ReadFrom returned an error: "timeout" (a *net.OpError whose Timeout()
\* is true), "operr" (another *net.OpError) or "other" (any other error).
IngestReadError(kind) ==
    /\ Running
    /\ ingestPc = "read"
    /\ IF kind \in {"timeout", "operr"} /\ ResetOnOpError
          THEN /\ frameBuffer' = <<>>
               /\ lastFrame' = <<>>
               /\ accepted' = <<>>
          ELSE UNCHANGED <<frameBuffer, lastFrame, accepted>>
    /\ IF kind = "timeout" /\ (frameBuffer # <<>> \/ lastFrame # <<>>)
          THEN /\ stalled' = TRUE
               /\ staleFrame' = lastFrame
          ELSE UNCHANGED <<stalled, staleFrame>>
    /\ ingestPc' = "select"
    /\ UNCHANGED <<copied, crashed>>
    /\ UNCHANGED <<frameHist, capVars, mainVars, scenVars, plVars, rateVars>>

\* Mutant: continue in place of return.
ContinueAfterWriteDeadlineError == "select"

\* Where Start goes when conn.SetWriteDeadline returned an error: return.
AfterWriteDeadlineError == "returned"

\* conn.ReadFrom returned the datagram frag; wdOk: SetWriteDeadline succeeded.
IngestDatagram(frag, wdOk) ==
    /\ Running
    /\ ingestPc = "read"
    /\ LET buf == newFameBuffer(frag) IN
       IF ~wdOk
          THEN /\ ingestPc' = AfterWriteDeadlineError
               /\ UNCHANGED <<frameBuffer, crashed, asmHist>>
       ELSE IF Len(buf) <= 0
          THEN /\ ingestPc' = "select"
               /\ UNCHANGED <<frameBuffer, crashed, asmHist>>
       ELSE IF IndexPanics(buf)
          THEN /\ crashed' = TRUE
               /\ UNCHANGED <<frameBuffer, ingestPc, asmHist>>
       ELSE IF ~hasJpegHeader(buf)
          THEN /\ ingestPc' = "select"
               /\ UNCHANGED <<frameBuffer, crashed, asmHist>>
       ELSE /\ frameBuffer' = buf
            /\ crashed' = crashed
            /\ IF isCompleteFrame(buf)
                  THEN /\ ingestPc' = "make"
                       /\ stalled' = FALSE
                       /\ staleFrame' = <<>>
                       /\ accepted' = <<>>
                  ELSE /\ ingestPc' = "select"
                       /\ accepted' = accepted \o frag
                       /\ UNCHANGED <<stalled, staleFrame>>
    /\ UNCHANGED <<lastFrame, copied>>
    /\ UNCHANGED <<capVars, mainVars, plVars, rateVars>>

\* s.lastFrame = make([]byte, len(s.frameBuffer)): the field refers to the
\* new, zero-filled array before anything is copied into it.
IngestMake ==
    /\ Running
    /\ ingestPc = "make"
    /\ lastFrame' = MakeBytes(Len(frameBuffer))
    /\ copied' = 0
    /\ ingestPc' = "copy"
    /\ UNCHANGED <<frameBuffer, crashed>>
    /\ UNCHANGED <<asmHist, frameHist, capVars, mainVars, scenVars, plVars, rateVars>>

\* The array after copy has moved the first k bytes.
CopyPrefix(k) ==
    [i \in 1..Len(frameBuffer) |-> IF i <= k THEN frameBuffer[i] ELSE 0]

\* Mutant: the accumulation is kept after the frame was copied.
KeepFrameBuffer == frameBuffer

\* s.frameBuffer = []byte{}
ResetFrameBuffer == <<>>

\* copy(s.lastFrame, s.frameBuffer) moves the bytes in place, in any number
\* of strides; after the last one, s.frameBuffer = []byte{}.
IngestCopy ==
    /\ Running
    /\ ingestPc = "copy"
    /\ \E k \in (copied + 1)..Len(frameBuffer) :
          /\ lastFrame' = CopyPrefix(k)
          /\ IF k = Len(frameBuffer)
                THEN /\ frameBuffer' = ResetFrameBuffer
                     /\ copied' = 0
                     /\ ingestPc' = "select"
                ELSE /\ copied' = k
                     /\ UNCHANGED <<frameBuffer, ingestPc>>
    /\ UNCHANGED crashed
    /\ UNCHANGED <<asmHist, frameHist, capVars, mainVars, scenVars, plVars, rateVars>>

\* ---------------------------------------------------------------- capture
\* len(ctx.Done()): ctx.Done() is an unbuffered channel, whose len is 0
\* whether or not the context was cancelled.
LenCtxDone == 0

\* for len(ctx.Done()) == 0 { pacing ... }: the loop condition and the
\* rate-limiting sleep.
CaptureLoopTop ==
    /\ Running
    /\ capPc = "top"
    /\ capPc' = IF LenCtxDone = 0 THEN "getframe" ELSE "stop"
    /\ UNCHANGED <<retKind, retVal, stopCalled, wg, wgDoneCalls, callStalled,
                   pushErr>>
    /\ UNCHANGED <<asmVars, asmHist, frameHist, mainVars, scenVars, plVars, rateVars>>

Saturate(n) == IF n >= MaxElapsed THEN MaxElapsed ELSE n

\* One millisecond passes.
Tick ==
    /\ Running
    /\ sinceTop' = Saturate(sinceTop + 1)
    /\ slept' = IF capPc = "sleep" THEN Saturate(slept + 1) ELSE slept
    /\ sincePush' = IF sincePush < 0 THEN sincePush ELSE Saturate(sincePush + 1)
    /\ UNCHANGED <<cfgVars, lastGap>>
    /\ UNCHANGED <<asmVars, asmHist, frameHist, capVars, mainVars, scenVars, plVars>>

\* delta.Seconds() < float64(1/float64(*frameRate)), delta in milliseconds.
TooSoon(delta, fps) == delta * fps < 1000

\* time.Duration(float64(1/float64(*frameRate))*1000) * time.Millisecond, in
\* milliseconds: the conversion truncates, and for every positive frame rate
\* up to 5000 the float64 product truncates to the integer quotient.
SleepMs(fps) == 1000 \div fps

\* The loop condition and the pacing: now = time.Now(); delta :=
\* now.Sub(lastFrame); lastFrame = now; if delta is shorter than a frame
\* period, time.Sleep.
CaptureLoopTopTimed ==
    /\ Running
    /\ capPc = "top"
    /\ IF LenCtxDone # 0
          THEN /\ capPc' = "stop"
               /\ UNCHANGED <<sinceTop, slept>>
          ELSE /\ sinceTop' = 0
               /\ IF TooSoon(sinceTop, frameRate)
                     THEN capPc' = "sleep" /\ slept' = 0
                     ELSE capPc' = "getframe" /\ slept' = slept
    /\ UNCHANGED <<cfgVars, sincePush, lastGap>>
    /\ UNCHANGED <<retKind, retVal, stopCalled, wg, wgDoneCalls, callStalled,
                   pushErr>>
    /\ UNCHANGED <<asmVars, asmHist, frameHist, mainVars, scenVars, plVars>>

\* time.Sleep returns: not before the requested duration has passed.
CaptureSleepEnds ==
    /\ Running
    /\ capPc = "sleep"
    /\ slept >= SleepMs(frameRate)
    /\ capPc' = "getframe"
    /\ UNCHANGED <<retKind, retVal, stopCalled, wg, wgDoneCalls, callStalled,
                   pushErr>>
    /\ UNCHANGED <<asmVars, asmHist, frameHist, mainVars, scenVars, plVars, rateVars>>

\* GetDefaultFrame: jpeg.Encode always writes the start-of-image and the
\* end-of-image marker, so the placeholder is never empty; what lies between
\* the markers is not modelled.
GetDefaultFrame == <<255, 216, 255, 217>>

\* Mutant: <= in place of <.
AdvanceAngleLate(a) ==
    IF a + angleOffsetIncrement <= FullRevolution
       THEN a + angleOffsetIncrement
       ELSE 0

\* if lastAngleOffset+angleOffsetIncrement < 360 { lastAngleOffset +=
\* angleOffsetIncrement } else { lastAngleOffset = 0 }
AdvanceAngle(a) ==
    IF a + angleOffsetIncrement < FullRevolution
       THEN a + angleOffsetIncrement
       ELSE 0

\* Mutant: the angle is advanced twice.
GetDefaultFrameDrawsTwice ==
    /\ placeholderSize' = <<lastFrameWidth, lastFrameHeight>>
    /\ usedAngle' = lastAngleOffset
    /\ lastAngleOffset' = AdvanceAngle(AdvanceAngle(lastAngleOffset))
    /\ sinceZero' = IF lastAngleOffset' = 0 THEN 0 ELSE sinceZero + 1
    /\ UNCHANGED <<lastFrameWidth, lastFrameHeight>>

\* What GetDefaultFrame does to the package-level state: the image is
\* lastFrameWidth x lastFrameHeight, drawn with angleOffset := lastAngleOffset,
\* and the angle is advanced afterwards.
GetDefaultFrameDraws ==
    /\ placeholderSize' = <<lastFrameWidth, lastFrameHeight>>
    /\ usedAngle' = lastAngleOffset
    /\ lastAngleOffset' = AdvanceAngle(lastAngleOffset)
    /\ sinceZero' = IF lastAngleOffset' = 0 THEN 0 ELSE sinceZero + 1
    /\ UNCHANGED <<lastFrameWidth, lastFrameHeight>>

\* GetFrame, first read of s.lastFrame:
\* if s.lastFrame == nil || len(s.lastFrame) <= 0 { return s.GetDefaultFrame() }
\* apart from what the call does to the picture of the placeholder.
GetFrameCheckBody ==
    /\ Running
    /\ capPc = "getframe"
    /\ callStalled' = stalled
    /\ IF lastFrame = <<>>
          THEN /\ retKind' = "placeholder"
               /\ retVal' = GetDefaultFrame
               /\ capPc' = "update"
          ELSE /\ capPc' = "size"
               /\ UNCHANGED <<retKind, retVal>>
    /\ UNCHANGED <<stopCalled, wg, wgDoneCalls, pushErr>>
    /\ UNCHANGED <<asmVars, asmHist, frameHist, mainVars, scenVars, rateVars>>

\* The step with the picture of the placeholder left out.
GetFrameCheck == GetFrameCheckBody /\ UNCHANGED plVars

\* The step with the picture of the placeholder followed.
GetFrameCheckDrawn ==
    /\ GetFrameCheckBody
    /\ IF lastFrame = <<>> THEN GetDefaultFrameDraws ELSE UNCHANGED plVars

\* lastFrameWidth, lastFrameHeight = s.GetFrameSize(): reads s.lastFrame
\* again; apart from the dimensions it stores.
GetFrameSizeBody ==
    /\ Running
    /\ capPc = "size"
    /\ capPc' = "ret"
    /\ UNCHANGED <<retKind, retVal, stopCalled, wg, wgDoneCalls, callStalled,
                   pushErr>>
    /\ UNCHANGED <<asmVars, asmHist, frameHist, mainVars, scenVars, rateVars>>

\* The step with the dimensions left out.
GetFrameSize == GetFrameSizeBody /\ UNCHANGED plVars

\* Dimensions image.DecodeConfig reports for frames that decode, other than
\* the defaults.
FrameSizes == {<<320, 240>>}

\* What GetFrameSize returns for the array cur: the defaults when it is empty
\* or does not decode, else the dimensions in its header. The model's bytes
\* keep the markers only, so which of the two a non-empty array yields is
\* left open.
DecodeOutcomes(cur) ==
    IF cur = <<>>
       THEN {<<defaultFrameWidth, defaultFrameHeight>>}
       ELSE {<<defaultFrameWidth, defaultFrameHeight>>} \cup FrameSizes

\* The step with the dimensions followed.
GetFrameSizeStored ==
    /\ GetFrameSizeBody
    /\ \E d \in DecodeOutcomes(lastFrame) :
          /\ lastFrameWidth' = d[1]
          /\ lastFrameHeight' = d[2]
    /\ UNCHANGED <<lastAngleOffset, usedAngle, placeholderSize, sinceZero>>

\* Mutant: the frame is handed out and the field is cleared.
GetFrameReturnTaking ==
    /\ Running
    /\ capPc = "ret"
    /\ retKind' = "frame"
    /\ retVal' = lastFrame
    /\ lastFrame' = <<>>
    /\ capPc' = "update"
    /\ UNCHANGED <<stopCalled, wg, wgDoneCalls, callStalled, pushErr>>
    /\ UNCHANGED <<frameBuffer, copied, ingestPc, crashed>>
    /\ UNCHANGED <<asmHist, frameHist, mainVars, scenVars, plVars, rateVars>>

\* return s.lastFrame: the third read of the field; the caller gets the
\* array itself, not a copy.
GetFrameReturn ==
    /\ Running
    /\ capPc = "ret"
    /\ retKind' = "frame"
    /\ retVal' = lastFrame
    /\ capPc' = "update"
    /\ UNCHANGED <<stopCalled, wg, wgDoneCalls, callStalled, pushErr>>
    /\ UNCHANGED <<asmVars, asmHist, frameHist, mainVars, scenVars, plVars, rateVars>>

\* Mutant: continue in place of break.
ContinueAfterPushError == "top"

\* Where the loop goes after stream.Update returned err # nil: break.
AfterPushError == "stop"

\* err := stream.Update(frame): fails with "stream was closed" once the
\* stream is closed; both error branches break. Apart from the clock.
CaptureUpdateBody ==
    /\ Running
    /\ capPc = "update"
    /\ IF streamClosed
          THEN /\ pushErr' = TRUE
               /\ capPc' = AfterPushError
          ELSE /\ capPc' = "top"
               /\ UNCHANGED pushErr
    /\ retKind' = "none"
    /\ retVal' = <<>>
    /\ UNCHANGED <<stopCalled, wg, wgDoneCalls, callStalled>>
    /\ UNCHANGED <<asmVars, asmHist, frameHist, mainVars, scenVars, plVars>>

\* The step with the clock left out.
CaptureUpdate == CaptureUpdateBody /\ UNCHANGED rateVars

\* The step with the clock followed: the time since the push before is
\* recorded.
CaptureUpdateTimed ==
    /\ CaptureUpdateBody
    /\ lastGap' = sincePush
    /\ sincePush' = 0
    /\ UNCHANGED <<cfgVars, sinceTop, slept>>

\* defer udpServer.Stop(): logs and calls s.ctx.Done().
CaptureStop ==
    /\ Running
    /\ capPc = "stop"
    /\ stopCalled' = TRUE
    /\ capPc' = "wgdone"
    /\ UNCHANGED <<retKind, retVal, wg, wgDoneCalls, callStalled, pushErr>>
    /\ UNCHANGED <<asmVars, asmHist, frameHist, mainVars, scenVars, plVars, rateVars>>

\* defer wg.Done()
CaptureWgDone ==
    /\ Running
    /\ capPc = "wgdone"
    /\ wg' = wg - 1
    /\ wgDoneCalls' = wgDoneCalls + 1
    /\ capPc' = "done"
    /\ UNCHANGED <<retKind, retVal, stopCalled, callStalled, pushErr>>
    /\ UNCHANGED <<asmVars, asmHist, frameHist, mainVars, scenVars, plVars, rateVars>>

\* ------------------------------------------------------------------- main
\* Characters of the environment value: a sign, two digits, a letter.
EnvChars == {"-", "0", "2", "x"}

EnvStrings == UNION {[1..n -> EnvChars] : n \in 0..MaxEnvLen}

\* Values of -fps that flag.Parse accepts.
FlagValues == {-1, 0, 1, 25, 1001}

DigitChars == <<"0", "1", "2", "3", "4", "5", "6", "7", "8", "9">>

IsDigit(c) == \E i \in 1..10 : DigitChars[i] = c

DigitValue(c) == (CHOOSE i \in 1..10 : DigitChars[i] = c) - 1

RECURSIVE DecimalValue(_)
DecimalValue(ds) ==
    IF ds = <<>>
       THEN 0
       ELSE 10 * DecimalValue(SubSeq(ds, 1, Len(ds) - 1)) + DigitValue(ds[Len(ds)])

\* strconv.Atoi(str): <<TRUE, n>>, or <<FALSE, 0>> when str is not an
\* optional sign followed by one or more digits.
Atoi(str) ==
    LET signed == str # <<>> /\ str[1] \in {"-", "+"}
        ds == IF signed THEN Tail(str) ELSE str
    IN  IF ds # <<>> /\ \A i \in 1..Len(ds) : IsDigit(ds[i])
           THEN <<TRUE, IF signed /\ str[1] = "-"
                           THEN 0 - DecimalValue(ds)
                           ELSE DecimalValue(ds)>>
           ELSE <<FALSE, 0>>

\* Go's integer quotient a / b for b # 0: truncated toward zero.
GoQuotient(a, b) ==
    LET abs(x) == IF x < 0 THEN 0 - x ELSE x
        q == abs(a) \div abs(b)
    IN  IF (a < 0) = (b < 0) THEN q ELSE 0 - q

\* if os.Getenv("MJPEG_SERVER_FRAMERATE") != "" { Atoi; on error the default;
\* *frameRate = newFrameRate }
MainEnvOverride ==
    /\ Running
    /\ mainPc = "env"
    /\ frameRate' = IF envFps = <<>>
                       THEN flagFps
                       ELSE IF Atoi(envFps)[1]
                               THEN Atoi(envFps)[2]
                               ELSE defaultFrameRate
    /\ mainPc' = "interval"
    /\ UNCHANGED <<streamClosed, cancelled, flagFps, envFps, streamInterval>>
    /\ UNCHANGED <<asmVars, asmHist, frameHist, capVars, scenVars, plVars, paceVars>>

\* streamInterval := time.Duration(1000/(*frameRate)) * time.Millisecond: an
\* integer division, which panics when *frameRate is 0.
MainStreamInterval ==
    /\ Running
    /\ mainPc = "interval"
    /\ IF frameRate = 0
          THEN /\ crashed' = TRUE
               /\ UNCHANGED <<mainPc, streamInterval>>
          ELSE /\ streamInterval' = GoQuotient(1000, frameRate)
               /\ mainPc' = "launch"
               /\ UNCHANGED crashed
    /\ UNCHANGED <<streamClosed, cancelled, flagFps, envFps, frameRate>>
    /\ UNCHANGED <<frameBuffer, lastFrame, copied, ingestPc>>
    /\ UNCHANGED <<asmHist, frameHist, capVars, scenVars, plVars, paceVars>>

\* server.ListenAndServe() returns (shutdown on SIGINT, or a listen error).
MainServeReturns ==
    /\ Running
    /\ mainPc = "serve"
    /\ mainPc' = "close"
    /\ UNCHANGED <<streamClosed, cancelled>>
    /\ UNCHANGED <<asmVars, asmHist, frameHist, capVars, scenVars, plVars, rateVars>>

\* mjpegStream.Close()
MainCloseStream ==
    /\ Running
    /\ mainPc = "close"
    /\ streamClosed' = TRUE
    /\ mainPc' = "cancel"
    /\ UNCHANGED cancelled
    /\ UNCHANGED <<asmVars, asmHist, frameHist, capVars, scenVars, plVars, rateVars>>

\* cancel()
MainCancel ==
    /\ Running
    /\ mainPc = "cancel"
    /\ cancelled' = TRUE
    /\ mainPc' = "wait"
    /\ UNCHANGED streamClosed
    /\ UNCHANGED <<asmVars, asmHist, frameHist, capVars, scenVars, plVars, rateVars>>

\* wg.Wait() returns once the counter is 0; main returns and the process
\* exits, which ends every goroutine.
MainWait ==
    /\ Running
    /\ mainPc = "wait"
    /\ wg = 0
    /\ mainPc' = "done"
    /\ UNCHANGED <<streamClosed, cancelled>>
    /\ UNCHANGED <<asmVars, asmHist, frameHist, capVars, scenVars, plVars, rateVars>>

\* ----------------------------------------------------------- specification
\* Everything but the position of Start and the dimensions it sets: the Go
\* zero values, capture entering its loop, main serving.
Launched ==
    /\ frameBuffer = <<>>
    /\ lastFrame = <<>>
    /\ copied = 0
    /\ crashed = FALSE
    /\ capPc = "top"
    /\ retKind = "none"
    /\ retVal = <<>>
    /\ streamClosed = FALSE
    /\ cancelled = FALSE
    /\ stopCalled = FALSE
    /\ wg = 1
    /\ wgDoneCalls = 0
    /\ mainPc = "serve"
    /\ stalled = FALSE
    /\ staleFrame = <<>>
    /\ callStalled = FALSE
    /\ newestFrame = <<>>
    /\ prevFrame = <<>>
    /\ accepted = <<>>
    /\ pushErr = FALSE
    /\ lastAngleOffset = 0
    /\ usedAngle = -1
    /\ placeholderSize = <<0, 0>>
    /\ sinceZero = 0
    /\ sinceTop = 0
    /\ slept = 0
    /\ sincePush = -1
    /\ lastGap = -1

\* The frame rate when neither -fps nor MJPEG_SERVER_FRAMERATE is given.
DefaultConfig ==
    /\ flagFps = defaultFrameRate
    /\ envFps = <<>>
    /\ frameRate = defaultFrameRate
    /\ streamInterval = 1000 \div defaultFrameRate

\* Start has reached its loop.
Started ==
    /\ Launched
    /\ DefaultConfig
    /\ ingestPc = "select"
    /\ lastFrameWidth = defaultFrameWidth
    /\ lastFrameHeight = defaultFrameHeight

Init ==
    /\ Started
    /\ chunks = <<>>
    /\ F = <<>>

\* The environment sends any datagram that keeps the accumulation within
\* MaxBufLen.
IngestRead ==
    \E frag \in Fragments, wdOk \in BOOLEAN :
        /\ Len(frameBuffer) + Len(frag) <= MaxBufLen
        /\ IngestDatagram(frag, wdOk)
        /\ UNCHANGED <<frameHist, scenVars>>

IngestReadFails == \E kind \in {"timeout", "operr", "other"} : IngestReadError(kind)

Next ==
    \/ IngestSelect
    \/ IngestRead
    \/ IngestReadFails
    \/ IngestMake
    \/ IngestCopy
    \/ CaptureLoopTop
    \/ GetFrameCheck
    \/ GetFrameSize
    \/ GetFrameReturn
    \/ CaptureUpdate
    \/ CaptureStop
    \/ CaptureWgDone
    \/ MainServeReturns
    \/ MainCloseStream
    \/ MainCancel
    \/ MainWait

Spec == Init /\ [][Next]_vars

\* ------------------------------------------------ fair scheduling (liveness)
IngestStep == IngestSelect \/ IngestRead \/ IngestReadFails \/ IngestMake \/ IngestCopy

CaptureStep ==
    \/ CaptureLoopTop
    \/ GetFrameCheck
    \/ GetFrameSize
    \/ GetFrameReturn
    \/ CaptureUpdate
    \/ CaptureStop
    \/ CaptureWgDone

MainShutdownStep == MainCloseStream \/ MainCancel \/ MainWait

\* The Go scheduler runs every runnable goroutine; the blocking read is
\* bounded by its deadline and the pacing sleep is finite. How long the web
\* server serves is up to the environment.
LiveSpec ==
    /\ Init
    /\ [][Next]_vars
    /\ WF_vars(IngestStep)
    /\ WF_vars(CaptureStep)
    /\ WF_vars(MainShutdownStep)

\* ------------------------------------- ingestion against a concurrent reader
\* The datagram step, recording the frames it recognises.
IngestReadTracked ==
    \E frag \in Fragments, wdOk \in BOOLEAN :
        /\ Len(frameBuffer) + Len(frag) <= MaxBufLen
        /\ IngestDatagram(frag, wdOk)
        /\ IF ingestPc' = "make"
              THEN /\ prevFrame' = newestFrame
                   /\ newestFrame' = frameBuffer'
              ELSE UNCHANGED frameHist
        /\ UNCHANGED scenVars

NextTorn ==
    \/ IngestSelect
    \/ IngestReadTracked
    \/ IngestReadFails
    \/ IngestMake
    \/ IngestCopy
    \/ CaptureLoopTop
    \/ GetFrameCheck
    \/ GetFrameSize
    \/ GetFrameReturn
    \/ CaptureUpdate

\* The ingestion task and the pacing task while the web server is serving.
SpecTorn == Init /\ [][NextTorn]_vars

\* ------------------------------------------------------ reassembly scenario
\* Byte sequences that begin with 0xFF 0xD8 and end with 0xFF 0xD9.
CompleteFrames ==
    {f \in UNION {[1..n -> Bytes] : n \in 2..MaxFrameLen} : isCompleteFrame(f)}

\* Every way to cut s into non-empty contiguous chunks.
RECURSIVE Splits(_)
Splits(s) ==
    IF s = <<>>
       THEN {<<>>}
       ELSE UNION {{<<SubSeq(s, 1, k)>> \o r : r \in Splits(SubSeq(s, k + 1, Len(s)))}
                   : k \in 1..Len(s)}

InitReassembly ==
    /\ Started
    /\ F \in CompleteFrames
    /\ chunks \in Splits(F)

\* The next chunk of F arrives as one datagram.
ReassemblyDeliver ==
    /\ chunks # <<>>
    /\ IngestDatagram(Head(chunks), TRUE)
    /\ chunks' = Tail(chunks)
    /\ UNCHANGED <<F, frameHist>>

\* Every chunk was delivered and ingested.
Delivered == chunks = <<>> /\ ingestPc \in {"select", "read"}

\* GetFrame is called once the final chunk has been ingested.
ReassemblyGetFrame ==
    /\ Delivered
    /\ (CaptureLoopTop \/ GetFrameCheck \/ GetFrameSize \/ GetFrameReturn)

NextReassembly ==
    \/ IngestSelect
    \/ ReassemblyDeliver
    \/ IngestMake
    \/ IngestCopy
    \/ ReassemblyGetFrame

SpecReassembly == InitReassembly /\ [][NextReassembly]_vars

\* --------------------------------------------------- placeholder after placeholder
\* capture has launched Start with go and entered its loop; Start has not run
\* yet, so the dimensions still hold their zero values.
InitPlaceholder ==
    /\ Launched
    /\ DefaultConfig
    /\ ingestPc = "start"
    /\ lastFrameWidth = 0
    /\ lastFrameHeight = 0
    /\ chunks = <<>>
    /\ F = <<>>

\* No datagram arrives: the read times out again and again.
NextAngle ==
    \/ IngestStart
    \/ IngestSelect
    \/ IngestReadError("timeout")
    \/ CaptureLoopTop
    \/ GetFrameCheckDrawn
    \/ CaptureUpdate

SpecAngle == InitPlaceholder /\ [][NextAngle]_vars

\* ----------------------------------------- the placeholder against live frames
\* GetFrame's first step, for at most MaxGenerations placeholders.
GetFrameCheckBounded ==
    /\ (lastFrame = <<>> => sinceZero < MaxGenerations)
    /\ GetFrameCheckDrawn

\* The datagrams sent under SpecPlaceholder: the two markers, a byte between
\* them, a lone byte and the empty payload.
MarkerFragments == {<<>>, <<0>>, <<255, 216>>, <<255, 217>>}

IngestReadMarkers ==
    \E frag \in MarkerFragments, wdOk \in BOOLEAN :
        /\ Len(frameBuffer) + Len(frag) <= MaxBufLen
        /\ IngestDatagram(frag, wdOk)
        /\ UNCHANGED <<frameHist, scenVars>>

NextPlaceholder ==
    \/ IngestStart
    \/ IngestSelect
    \/ IngestReadMarkers
    \/ IngestReadFails
    \/ IngestMake
    \/ IngestCopy
    \/ CaptureLoopTop
    \/ GetFrameCheckBounded
    \/ GetFrameSizeStored
    \/ GetFrameReturn
    \/ CaptureUpdate

SpecPlaceholder == InitPlaceholder /\ [][NextPlaceholder]_vars

\* ------------------------------------------------ recovery after a lost fragment
\* Datagrams that do not begin with the start marker.
StrayFragments ==
    {f \in Fragments : ~(Len(f) >= 2 /\ f[1] = 255 /\ f[2] = 216)}

\* The leading fragment of a frame was lost: up to MaxStrays of its later
\* fragments arrive at the empty assembler, then the chunks of the frame F.
InitRecovery ==
    /\ Started
    /\ F \in CompleteFrames
    /\ chunks \in {strays \o cut :
                     strays \in UNION {[1..n -> StrayFragments] : n \in 0..MaxStrays},
                     cut \in Splits(F)}

SpecRecovery == InitRecovery /\ [][NextReassembly]_vars

\* --------------------------------------------------- accumulation across frames
\* The marker datagrams, accumulated up to MaxAccLen bytes.
IngestReadAccumulating ==
    \E frag \in MarkerFragments, wdOk \in BOOLEAN :
        /\ Len(frameBuffer) + Len(frag) <= MaxAccLen
        /\ IngestDatagram(frag, wdOk)
        /\ UNCHANGED <<frameHist, scenVars>>

NextAccumulation ==
    \/ IngestSelect
    \/ IngestReadAccumulating
    \/ IngestReadFails
    \/ IngestMake
    \/ IngestCopy

SpecAccumulation == Init /\ [][NextAccumulation]_vars

\* ------------------------------------------------------------------ the clock
\* Frame rates under SpecPacing: periods of 4, 2.99.. and 2 milliseconds.
PacedFrameRates == {250, 334, 500}

InitPacing ==
    /\ Launched
    /\ ingestPc = "select"
    /\ lastFrameWidth = defaultFrameWidth
    /\ lastFrameHeight = defaultFrameHeight
    /\ chunks = <<>>
    /\ F = <<>>
    /\ flagFps \in PacedFrameRates
    /\ envFps = <<>>
    /\ frameRate = flagFps
    /\ streamInterval = GoQuotient(1000, frameRate)

\* The pacing loop against an assembler that receives nothing.
NextPacing ==
    \/ Tick
    \/ CaptureLoopTopTimed
    \/ CaptureSleepEnds
    \/ GetFrameCheck
    \/ CaptureUpdateTimed

SpecPacing == InitPacing /\ [][NextPacing]_vars

\* -------------------------------------------------------------- configuration
\* main after flag.Parse(): nothing is launched yet.
InitConfig ==
    /\ frameBuffer = <<>>
    /\ lastFrame = <<>>
    /\ copied = 0
    /\ ingestPc = "unlaunched"
    /\ crashed = FALSE
    /\ capPc = "unlaunched"
    /\ retKind = "none"
    /\ retVal = <<>>
    /\ streamClosed = FALSE
    /\ cancelled = FALSE
    /\ stopCalled = FALSE
    /\ wg = 0
    /\ wgDoneCalls = 0
    /\ mainPc = "env"
    /\ stalled = FALSE
    /\ staleFrame = <<>>
    /\ callStalled = FALSE
    /\ newestFrame = <<>>
    /\ prevFrame = <<>>
    /\ accepted = <<>>
    /\ pushErr = FALSE
    /\ chunks = <<>>
    /\ F = <<>>
    /\ lastAngleOffset = 0
    /\ lastFrameWidth = 0
    /\ lastFrameHeight = 0
    /\ usedAngle = -1
    /\ placeholderSize = <<0, 0>>
    /\ sinceZero = 0
    /\ sinceTop = 0
    /\ slept = 0
    /\ sincePush = -1
    /\ lastGap = -1
    /\ flagFps \in FlagValues
    /\ envFps \in EnvStrings
    /\ frameRate = flagFps
    /\ streamInterval = 0

NextConfig == MainEnvOverride \/ MainStreamInterval

SpecConfig == InitConfig /\ [][NextConfig]_vars

\* =================================================================== claims

\* C1 (SpecReassembly): delivering the chunks of any complete frame F, however
\* F is cut into non-empty chunks, to an assembler whose frameBuffer is empty
\* never aborts the process, and GetFrame called after the final chunk has
\* been ingested returns exactly F.
C1_Reassembly ==
    /\ ~crashed
    /\ (chunks = <<>> /\ capPc = "update") => (retKind = "frame" /\ retVal = F)

\* C2 (SpecTorn): every value GetFrame returns that is not placeholder output
\* equals the previous or the newest complete frame; the reader never sees an
\* array that is allocated but not yet fully copied.
C2_NoTornReads ==
    (capPc = "update" /\ retKind = "frame")
        => (retVal # <<>> /\ retVal \in {prevFrame, newestFrame})

\* C3: a read timeout that finds frameBuffer or lastFrame non-empty leaves both
\* empty, and a GetFrame call that begins after such a reset and before the
\* next frame is recognised returns placeholder output.
C3_TimeoutFallsBack ==
    [][ /\ (IngestReadError("timeout") /\ (frameBuffer # <<>> \/ lastFrame # <<>>))
            => (frameBuffer' = <<>> /\ lastFrame' = <<>>)
        /\ (capPc # "update" /\ capPc' = "update" /\ callStalled')
            => retKind' = "placeholder"
        /\ (callStalled' /\ capPc' \in {"size", "ret"}) => FALSE ]_vars

\* C3 witness: a timeout wiped a complete frame, and a GetFrame call that
\* began after it returned the placeholder.
C3_Witness ==
    /\ capPc = "update"
    /\ callStalled
    /\ staleFrame # <<>>
    /\ retKind = "placeholder"
    /\ lastFrame = <<>>
    /\ frameBuffer = <<>>

\* C4: GetFrame returns lastFrame when it is non-empty and otherwise the
\* placeholder, whatever the ingestion task does between the emptiness check
\* and the return; it never returns an empty byte sequence.
C4_NeverEmpty ==
    capPc = "update" => (retKind \in {"placeholder", "frame"} /\ retVal # <<>>)

\* C5: a datagram that does not begin with 0xFF 0xD8, arriving while
\* frameBuffer is empty, leaves frameBuffer empty and lastFrame unchanged, and
\* the assembler goes on serving GetFrame.
C5_MalformedLeading ==
    [][ \A frag \in Fragments :
          (/\ frameBuffer = <<>>
           /\ ~(Len(frag) >= 2 /\ frag[1] = 255 /\ frag[2] = 216)
           /\ IngestDatagram(frag, TRUE))
          => (frameBuffer' = <<>> /\ lastFrame' = lastFrame /\ ~crashed') ]_vars

\* Checked besides C5: the malformed leading fragment never changes
\* frameBuffer or lastFrame, also when it makes the loop panic.
MalformedLeadingKeepsState ==
    [][ \A frag \in Fragments :
          (/\ frameBuffer = <<>>
           /\ ~(Len(frag) >= 2 /\ frag[1] = 255 /\ frag[2] = 216)
           /\ IngestDatagram(frag, TRUE))
          => (frameBuffer' = <<>> /\ lastFrame' = lastFrame) ]_vars

\* C6: when the step that recognised a complete frame ends, frameBuffer is
\* empty, and whenever the loop is between datagrams frameBuffer holds exactly
\* the fragments stored since the last recognition (or reset): nothing of the
\* frame recognised before.
C6_FreshAccumulation ==
    [][ /\ (ingestPc = "copy" /\ ingestPc' = "select") => frameBuffer' = <<>>
        /\ ingestPc' \in {"select", "read"} => frameBuffer' = accepted' ]_vars

\* C6 witness: a frame was recognised and published, and the fragments of the
\* next one are being accumulated.
C6_Witness ==
    /\ ingestPc = "read"
    /\ lastFrame # <<>>
    /\ frameBuffer # <<>>
    /\ frameBuffer = accepted

\* C7: once cancel() was called, the pacing loop leaves at the top of its
\* next iteration, without another push.
C7_CancelObserved ==
    [][ (cancelled /\ capPc = "top" /\ capPc' # "top") => capPc' = "stop" ]_vars

\* C8: once Stop() was called, the ingestion loop returns at its next select
\* and frameBuffer and lastFrame change no more.
C8_StopObserved ==
    [][ stopCalled =>
          /\ (ingestPc = "select" /\ ingestPc' # "select") => ingestPc' = "returned"
          /\ ingestPc = "returned" => UNCHANGED <<frameBuffer, lastFrame>> ]_vars

\* C9 (LiveSpec): wg.Done() is called at most once, and once the web server
\* has returned, wg.Wait() eventually returns.
C9_ShutdownTerminates ==
    /\ [](wgDoneCalls <= 1 /\ wg >= 0)
    /\ (mainPc = "close") ~> (mainPc = "done")

\* Checked besides C9: in the behaviours in which no panic kills the process,
\* the shutdown sequence ends with wg.Wait() returning.
ShutdownTerminatesUnlessPanic ==
    /\ [](wgDoneCalls <= 1 /\ wg >= 0)
    /\ (mainPc = "close") ~> (mainPc = "done" \/ crashed)

\* C10: after a push returned an error the pacing loop is outside its loop:
\* no further push and no further GetFrame.
C10_PushErrorEndsLoop ==
    pushErr => capPc \in {"stop", "wgdone", "done"}

\* C10 witness: a push failed and capture has finished.
C10_Witness == pushErr /\ capPc = "done" /\ wgDoneCalls = 1

\* C11: a datagram read that fails with an error other than a read timeout
\* leaves frameBuffer and lastFrame unchanged, and the loop goes on to its
\* next read.
C11_TransientReadError ==
    [][ \A kind \in {"operr", "other"} :
          IngestReadError(kind)
              => (UNCHANGED <<frameBuffer, lastFrame>> /\ ingestPc' = "select") ]_vars

\* Checked besides C11: a read error that is no *net.OpError changes nothing.
OtherReadErrorKeepsState ==
    [][ IngestReadError("other")
            => (UNCHANGED <<frameBuffer, lastFrame>> /\ ingestPc' = "select") ]_vars

\* C12: when SetWriteDeadline fails after a successful read, the loop returns
\* without ingesting the datagram, and from then on frameBuffer and lastFrame
\* are never modified again.
C12_WriteDeadlineFatal ==
    [][ /\ (\E frag \in Fragments : IngestDatagram(frag, FALSE))
            => (ingestPc' = "returned" /\ UNCHANGED <<frameBuffer, lastFrame>>)
        /\ ingestPc = "returned"
            => (ingestPc' = "returned" /\ UNCHANGED <<frameBuffer, lastFrame>>) ]_vars

\* C12 witness: the loop returned in the middle of a frame, and the pacing
\* task still serves the frame recognised before.
C12_Witness ==
    /\ ingestPc = "returned"
    /\ frameBuffer # <<>>
    /\ lastFrame # <<>>
    /\ capPc = "update"
    /\ retKind = "frame"
    /\ retVal = lastFrame

\* C13: in every reachable state frameBuffer is empty or has at least two
\* bytes, the first two being 0xFF 0xD8.
C13_PendingBufferHeader ==
    \/ frameBuffer = <<>>
    \/ (Len(frameBuffer) >= 2 /\ frameBuffer[1] = 255 /\ frameBuffer[2] = 216)

\* C13 witness: after a timeout wiped a frame, fragments of the next frame
\* have been accumulated.
C13_Witness ==
    /\ stalled
    /\ staleFrame # <<>>
    /\ Len(frameBuffer) > 2

\* C14: in every reachable state, the states inside the step that recognises a
\* frame included, lastFrame is empty or begins with 0xFF 0xD8 and ends with
\* 0xFF 0xD9.
C14_LastFrameComplete ==
    \/ lastFrame = <<>>
    \/ (/\ Len(lastFrame) >= 2
        /\ lastFrame[1] = 255 /\ lastFrame[2] = 216
        /\ lastFrame[Len(lastFrame) - 1] = 255 /\ lastFrame[Len(lastFrame)] = 217)

\* C15: lastFrame changes only inside the ingest of a fragment that completes
\* a frame, which leaves it a copy of the accumulated buffer, and in a read
\* timeout, which leaves it empty.
C15_LastFrameChanges ==
    [][ /\ lastFrame' # lastFrame
            => \/ ingestPc \in {"make", "copy"}
               \/ (IngestReadError("timeout") /\ lastFrame' = <<>>)
        /\ (ingestPc = "copy" /\ ingestPc' = "select") => lastFrame' = frameBuffer ]_vars

\* Checked besides C15: the same with every *net.OpError counted as a timeout.
LastFrameChangesOnOpError ==
    [][ /\ lastFrame' # lastFrame
            => \/ ingestPc \in {"make", "copy"}
               \/ (\E kind \in {"timeout", "operr"} :
                      IngestReadError(kind) /\ lastFrame' = <<>>)
        /\ (ingestPc = "copy" /\ ingestPc' = "select") => lastFrame' = frameBuffer ]_vars

\* C16: no step of the pacing task, GetFrame included, changes frameBuffer or
\* lastFrame; every change of either is a step of the ingestion task.
C16_SingleWriter ==
    [][ /\ CaptureStep => UNCHANGED <<frameBuffer, lastFrame>>
        /\ (frameBuffer' # frameBuffer \/ lastFrame' # lastFrame) => IngestStep ]_vars

\* C16 witness: GetFrame returned a live frame while the next one is being
\* accumulated, and the frame is still in place.
C16_Witness ==
    /\ capPc = "update"
    /\ retKind = "frame"
    /\ lastFrame # <<>>
    /\ retVal = lastFrame
    /\ frameBuffer # <<>>

\* C17: wg.Done() is called only after the pacing loop was left and Stop()
\* was called, and when wg.Wait() returns the ingestion task has returned.
C17_ShutdownOrdering ==
    /\ wgDoneCalls > 0 => (stopCalled /\ capPc = "done")
    /\ mainPc = "done" => ingestPc = "returned"

\* Checked besides C17: the order of the deferred calls alone.
CompletionAfterStop ==
    wgDoneCalls > 0 => (stopCalled /\ capPc = "done")

\* A step in which GetFrame falls back to the placeholder.
Generates == capPc = "getframe" /\ capPc' = "update" /\ retKind' = "placeholder"

\* C18 (SpecAngle): the angle starts at 0; each generation draws with the
\* current angle and then advances it by 0.5 degrees (5 tenths), to 0 when
\* that would reach 360 degrees (3600 tenths); so 0 <= angle < 360, the angle
\* is a multiple of 0.5, two successive generations use different angles, and
\* the angle is back at 0 after exactly 720 generations.
C18_AngleCycle ==
    /\ lastAngleOffset = 0
    /\ [](/\ 0 <= lastAngleOffset
          /\ lastAngleOffset < 3600
          /\ lastAngleOffset % 5 = 0
          /\ sinceZero < 720)
    /\ [][ Generates =>
             /\ usedAngle' = lastAngleOffset
             /\ lastAngleOffset' =
                   (IF lastAngleOffset + 5 >= 3600 THEN 0 ELSE lastAngleOffset + 5)
             /\ lastAngleOffset' # lastAngleOffset
             /\ (lastAngleOffset' = 0 <=> sinceZero = 719) ]_vars

\* C18 witness: the placeholder drawn at 359.5 degrees was returned and the
\* angle is back at 0.
C18_Witness ==
    /\ capPc = "update"
    /\ retKind = "placeholder"
    /\ usedAngle = 3595
    /\ lastAngleOffset = 0
    /\ sinceZero = 0

\* C19 (SpecPlaceholder): a GetFrame call that falls back to the placeholder
\* advances the angle exactly once, and no other step changes it: no step of
\* the ingestion task and no step of a GetFrame call that returns a live
\* frame.
C19_AngleOnlyByGenerator ==
    [][ /\ Generates
            => lastAngleOffset' =
                  (IF lastAngleOffset + 5 >= 3600 THEN 0 ELSE lastAngleOffset + 5)
        /\ ~Generates => lastAngleOffset' = lastAngleOffset ]_vars

\* C19 witness: two placeholders were generated, then a frame arrived and
\* GetFrame returned it, with the angle where the second placeholder left it.
C19_Witness ==
    /\ capPc = "update"
    /\ retKind = "frame"
    /\ retVal = lastFrame
    /\ lastFrame # <<>>
    /\ lastAngleOffset = 10
    /\ sinceZero = 2

\* C20 (SpecPlaceholder): once Start has set the default dimensions, every
\* GetFrame call that falls back to the placeholder generates it at 640x480,
\* also after a timeout that followed frames of another size.
C20_DefaultSize ==
    [][ (Generates /\ ingestPc # "start") => placeholderSize' = <<640, 480>> ]_vars

\* Checked besides C20: the same for every call, those made before Start has
\* set the defaults included.
DefaultSizeAlways ==
    (capPc = "update" /\ retKind = "placeholder") => placeholderSize = <<640, 480>>

\* C21 (SpecPlaceholder): under every interleaving of Start's first
\* statements with the first GetFrame call, a placeholder is generated at
\* 640x480 or at the decoded dimensions of a frame, never at 0x0.
C21_SizeDetermined ==
    (capPc = "update" /\ retKind = "placeholder")
        => placeholderSize \in ({<<640, 480>>} \cup FrameSizes)

\* C22 (SpecRecovery): after the leading fragment of a frame was lost, each
\* later fragment that arrives while frameBuffer is empty and does not begin
\* with 0xFF 0xD8 is discarded with frameBuffer staying empty, and the frame
\* F delivered next, in order, is returned by GetFrame exactly as F.
C22_Recovery ==
    /\ [](~crashed)
    /\ []((chunks = <<>> /\ capPc = "update") => (retKind = "frame" /\ retVal = F))
    /\ [][ (/\ chunks # <<>>
            /\ frameBuffer = <<>>
            /\ Head(chunks) \in StrayFragments
            /\ ReassemblyDeliver) => frameBuffer' = <<>> ]_vars

\* C23 (SpecAccumulation): the step that recognises a frame recognises the
\* concatenation, in arrival order, of the fragments stored since frameBuffer
\* was last empty, and publishes exactly that in lastFrame; a fragment that
\* begins with 0xFF 0xD8 is appended like any other.
C23_FrameIsAccumulation ==
    [][ /\ \A frag \in MarkerFragments :
              (IngestDatagram(frag, TRUE) /\ ingestPc' = "make")
                  => frameBuffer' = accepted \o frag
        /\ \A frag \in MarkerFragments :
              (IngestDatagram(frag, TRUE) /\ frameBuffer # <<>>)
                  => frameBuffer' = frameBuffer \o frag
        /\ (ingestPc = "copy" /\ ingestPc' = "select") => lastFrame' = frameBuffer ]_vars

\* C23 witness: the end of a frame was lost; the frame recognised next is the
\* stale start marker followed by the whole new frame.
C23_Witness ==
    /\ ingestPc = "select"
    /\ frameBuffer = <<>>
    /\ lastFrame = <<255, 216, 255, 216, 255, 217>>

\* C24: whatever frameBuffer holds and however long the datagram is, the
\* marker checks stay inside the accumulated buffer: ingesting a datagram
\* never aborts the process.
C24_ShortDatagram ==
    [][ \A frag \in Fragments : IngestDatagram(frag, TRUE) => ~crashed' ]_vars

\* C25 (SpecPacing): two consecutive pushes are at least floor(1000/fps)
\* milliseconds apart.
C25_RateLimit ==
    lastGap = -1 \/ lastGap >= 1000 \div frameRate

\* C26 (SpecConfig): for every frame rate the flag or the environment can
\* deliver, computing the interval does not abort and yields a positive
\* number of milliseconds.
C26_PositiveInterval ==
    /\ ~crashed
    /\ mainPc = "launch" => streamInterval > 0

====
